---- MODULE Spec2Model ----
(***************************************************************************)
(* Globe (src/main.js): a three.js page that loads a GeoJSON document,     *)
(* builds one filled mesh per polygon ring on a sphere, and highlights the *)
(* country under the pointer.                                              *)
(*                                                                         *)
(* The module models                                                      *)
(*   - the start-up sequence  setup() / loadJSON() / run()                 *)
(*   - the event handlers     onPointerMove, onMouseDown, onMouseUp        *)
(*   - the geometry helpers   latLonToVec3, createShapeMesh                *)
(*                                                                         *)
(* JavaScript numbers are modelled in fixed point (three decimals), with a *)
(* separate NaN value; colours are 24-bit integers held in heap objects so *)
(* that the aliasing of THREE.Color objects is visible.                    *)
(***************************************************************************)
EXTENDS Integers, Sequences, FiniteSets, TLC

VARIABLES
    pc,          \* position of the module's top-level code / setup()
    fetchCount,  \* number of fetch() calls issued so far
    data,        \* value loadJSON() resolved with (Null before / on failure)
    failure,     \* how the load failed ("" when it did not)
    nextId,      \* three.js Object3D id counter (_object3DId)
    scene,       \* scene.children: sequence of objects
    material,    \* object id -> reference of its material.color object
    heap,        \* THREE.Color objects: reference -> 24-bit colour value
    selected,    \* the record `selected` {id, color, locked}
    mouseState,  \* the record `mouseState` {down}
    output,      \* output.innerHTML
    listeners,   \* TRUE once the window event listeners are registered
    rotation,    \* scene.rotation.y in units of the per-frame increment
    frameLog,    \* one entry per rendered frame: did it rotate the scene
    hits,        \* one entry per delivered pointermove: the hit or "ignored"
    events,      \* the recolouring writes performed so far
    assigned,    \* object id -> the colour its material was created with
    call,        \* geometry harness: the pending call of a helper
    ret          \* geometry harness: what the helper returned

appVars == <<pc, fetchCount, data, failure, nextId, scene, material, heap,
             selected, mouseState, output, listeners, rotation, frameLog,
             hits, events, assigned>>
fnVars == <<call, ret>>
vars == <<pc, fetchCount, data, failure, nextId, scene, material, heap,
          selected, mouseState, output, listeners, rotation, frameLog,
          hits, events, assigned, call, ret>>

(***************************************************************************)
(* Bounds of the model.                                                    *)
(***************************************************************************)
\* pointermove events delivered plus frames rendered in one run
MaxEvents == 6
\* vertices per polygon ring in the geometry harness
MaxRing == 3

(***************************************************************************)
(* JavaScript values.                                                      *)
(***************************************************************************)
Null == [null |-> TRUE]
Undefined == [undef |-> TRUE]
NaN == [nan |-> TRUE, v |-> 0]
Num(n) == [nan |-> FALSE, v |-> n]
Arr(s) == [arr |-> s]

IsArr(x) == "arr" \in DOMAIN x
IsNum(x) == "nan" \in DOMAIN x

\* x[i] in JavaScript (0-based); indexing a number yields undefined
Get(x, i) ==
    IF IsArr(x) /\ i >= 0 /\ i < Len(x.arr) THEN x.arr[i + 1] ELSE Undefined

\* x.length for an array
Length(x) == IF IsArr(x) THEN Len(x.arr) ELSE 0

\* ToNumber, as applied by the * operator
RECURSIVE ToNumber(_)
ToNumber(x) ==
    IF IsNum(x) THEN x
    ELSE IF IsArr(x) /\ Len(x.arr) = 0 THEN Num(0)
    ELSE IF IsArr(x) /\ Len(x.arr) = 1 THEN ToNumber(x.arr[1])
    ELSE NaN

(***************************************************************************)
(* Fixed-point arithmetic.  Angles in degrees are whole numbers, angles in  *)
(* radians are kept in units of 1/10000 rad, every other number n stands   *)
(* for n / Unit.                                                           *)
(***************************************************************************)
Unit == 10 * 10 * 10

\* Math.PI, in units of 1/10000
PiE4 == 31416

Round(n, d) == (2 * n + d) \div (2 * d)

Mul(a, b) ==
    IF a.nan \/ b.nan THEN NaN ELSE Num(Round(a.v * b.v, Unit))

\* sin of k*10 degrees, k = 0..9, times Unit
SinTable == <<0, 174, 342, 500, 643, 766, 866, 940, 985, 1000>>

SinDeg(d) ==
    LET m == d % 360
        T(a) == SinTable[(a \div 10) + 1]
    IN  IF m <= 90 THEN T(m)
        ELSE IF m <= 180 THEN T(180 - m)
        ELSE IF m <= 270 THEN 0 - T(m - 180)
        ELSE 0 - T(360 - m)

\* An angle in radians is kept in units of 1/10000 rad.
\* x * Math.PI / 180.0
ToRadians(x) == IF x.nan THEN NaN ELSE Num(Round(x.v * PiE4, 180))

\* the whole number of degrees nearest to an angle in radians
NearestDeg(r) == Round(r * 180, PiE4)

Math_sin(x) == IF x.nan THEN NaN ELSE Num(SinDeg(NearestDeg(x.v)))
Math_cos(x) == IF x.nan THEN NaN ELSE Num(SinDeg(NearestDeg(x.v) + 90))

(***************************************************************************)
(* Geometry helpers.                                                       *)
(***************************************************************************)
Vec3(x, y, z) == <<x, y, z>>

\* function latLonToVec3(lat, lon, radius = 1.0, deg = true)
latLonToVec3(lat, lon, radius, deg) ==
    LET la == IF deg THEN ToRadians(lat) ELSE lat
        lo == IF deg THEN ToRadians(lon) ELSE lon
        l == Math_cos(lo)
        y == Math_sin(lo)
        x == Mul(Math_sin(la), l)
        z == Mul(Math_cos(la), l)
    IN  Vec3(Mul(x, radius), Mul(y, radius), Mul(z, radius))

\* The flat shape built by the first loop of createShapeMesh: the sequence
\* of 2D points handed to shape.moveTo / shape.lineTo, in radians.
ShapePath(coordinatesArray) ==
    [i \in 1..Length(coordinatesArray) |->
        LET p == Get(coordinatesArray, i - 1)
        IN  <<ToRadians(ToNumber(Get(p, 0))), ToRadians(ToNumber(Get(p, 1)))>>]

\* Vector2.equals: NaN equals nothing
SamePoint(p, q) ==
    /\ ~p[1].nan /\ ~p[2].nan /\ ~q[1].nan /\ ~q[2].nan
    /\ p[1].v = q[1].v /\ p[2].v = q[2].v

RECURSIVE DropRepeats(_)
DropRepeats(ps) ==
    IF Len(ps) <= 1 THEN ps
    ELSE LET front == DropRepeats(SubSeq(ps, 1, Len(ps) - 1))
         IN  IF SamePoint(front[Len(front)], ps[Len(ps)]) THEN front
             ELSE Append(front, ps[Len(ps)])

Reverse(s) == [i \in 1..Len(s) |-> s[Len(s) + 1 - i]]

RECURSIVE TwiceArea(_, _)
TwiceArea(ps, q) ==
    IF q > Len(ps) THEN 0
    ELSE LET p == IF q = 1 THEN Len(ps) ELSE q - 1
         IN  ps[p][1].v * ps[q][2].v - ps[q][1].v * ps[p][2].v
                + TwiceArea(ps, q + 1)

\* ShapeUtils.isClockWise: area < 0 (false when the area is NaN); the
\* coordinates are taken in 1/100 rad, which keeps the sum in range
IsClockWise(ps) ==
    /\ \A i \in 1..Len(ps) : ~ps[i][1].nan /\ ~ps[i][2].nan
    /\ TwiceArea([i \in 1..Len(ps) |->
                    <<Num(ps[i][1].v \div 100), Num(ps[i][2].v \div 100)>>], 1) < 0

\* new THREE.ShapeGeometry(shape): the positions (x, y) of the flat
\* geometry.  A path made of a single moveTo has no curve and yields no
\* point; consecutive repeated points are dropped; the contour is put in
\* clockwise order and a closing point equal to the first is removed.
ShapeGeometry(path) ==
    LET pts == IF Len(path) <= 1 THEN <<>> ELSE DropRepeats(path)
        cw == IF IsClockWise(pts) THEN pts ELSE Reverse(pts)
    IN  IF Len(cw) > 2 /\ SamePoint(cw[1], cw[Len(cw)])
        THEN SubSeq(cw, 1, Len(cw) - 1) ELSE cw

\* the two angles take each other's place
ProjectPositionSwapped(pos, globeRadius) ==
    LET lat == pos[2]
        lon == pos[1]
        l == Math_cos(lon)
    IN  Vec3(Mul(Mul(Math_sin(lat), l), globeRadius),
             Mul(Math_sin(lon), globeRadius),
             Mul(Mul(Math_cos(lat), l), globeRadius))

\* The second loop of createShapeMesh: one flat position (lat, lon) to its
\* place on the sphere.
ProjectPosition(pos, globeRadius) ==
    LET lat == pos[1]
        lon == pos[2]
        l == Math_cos(lon)
    IN  Vec3(Mul(Mul(Math_sin(lat), l), globeRadius),
             Mul(Math_sin(lon), globeRadius),
             Mul(Mul(Math_cos(lat), l), globeRadius))

\* function createShapeMesh(coordinatesArray, globeRadius = 10, color)
\* returns the mesh: its geometry's positions and its material's colour
createShapeMesh(coordinatesArray, globeRadius, color) ==
    LET flat == ShapeGeometry(ShapePath(coordinatesArray))
    IN  [position |-> [i \in 1..Len(flat) |-> ProjectPosition(flat[i], globeRadius)],
         color |-> color]

\* setup(), lines 46-47: the ring handed to createShapeMesh for one entry
\* of geometry.coordinates
RingOf(entry) ==
    IF Length(entry) = 1 THEN Get(entry, 0) ELSE entry

(***************************************************************************)
(* Colours.                                                                *)
(***************************************************************************)
\* 0xD74E09, the highlight colour
HighlightColor == 14110217
\* 0x124E78, the globe's colour
GlobeColor == 1199736
\* 0xF0F0C9, the base tint of the countries
BaseTint == 15790281
\* 0xFFFFFF, new THREE.Color()
White == 16777215
\* 0xEF, the factor of Math.random()
RandomRange == 239

RECURSIVE BitOr(_, _)
BitOr(a, b) ==
    IF a = 0 THEN b
    ELSE IF b = 0 THEN a
    ELSE (IF a % 2 = 1 \/ b % 2 = 1 THEN 1 ELSE 0) + 2 * BitOr(a \div 2, b \div 2)

\* setup(), line 43: ((value << 16) | (value << 8) | value) | color
Shade(value) ==
    BitOr(BitOr(BitOr(value * 65536, value * 256), value), BaseTint)

\* the values of  Math.random() * 0xEF | 0  the model draws
RandomBytes == {0, RandomRange - 1}

(***************************************************************************)
(* The documents the server may hold at assets/earth.geo.json.             *)
(***************************************************************************)
Pair(a, b) == Arr(<<Num(a), Num(b)>>)
Ring(ps) == Arr([i \in 1..Len(ps) |-> Pair(ps[i][1], ps[i][2])])
Wrap(r) == Arr(<<r>>)

Feature(admin, coordinates) ==
    [properties |-> [admin |-> admin],
     geometry |-> [coordinates |-> Arr(coordinates)]]

TriangleA == Ring(<<<<0, 0>>, <<10, 0>>, <<0, 10>>>>)
TriangleB == Ring(<<<<20, 30>>, <<40, 30>>, <<20, 50>>>>)

Datasets ==
    { [features |-> <<>>],
      [features |-> <<Feature("Aland", <<TriangleA>>)>>],
      [features |-> <<Feature("Aland", <<TriangleA, Wrap(TriangleB)>>)>>],
      [features |-> <<Feature("Aland", <<TriangleA>>),
                      Feature("Borduria", <<Wrap(TriangleB)>>)>>] }

(***************************************************************************)
(* The scene, the colour objects and the selection record.                 *)
(***************************************************************************)
\* selected.id = null
NoId == 0 - 1

\* JavaScript truthiness of an object id: null and 0 are falsy
Truthy(id) == id # NoId /\ id # 0

\* globeRadius + 1.5
MeshRadius == Num(20 * Unit + (3 * Unit) \div 2)

\* pointer.locked: `pointer` is a THREE.Vector2 and has no such property
pointerLocked == FALSE

Object3D(id, name, type, position) ==
    [id |-> id, name |-> name, type |-> type, position |-> position]

ObjectIds == {scene[i].id : i \in 1..Len(scene)}
ObjectById(id) == scene[CHOOSE i \in 1..Len(scene) : scene[i].id = id]

\* the objects a ray can hit: lights have no raycast
MeshIds == {scene[i].id : i \in {k \in 1..Len(scene) : scene[k].type = "Mesh"}}

\* a fresh colour object
Alloc(h) == CHOOSE r \in 1..(Cardinality(DOMAIN h) + 1) : r \notin DOMAIN h

\* colour objects no longer referenced are dropped
Collect(h, mat, sel) ==
    [r \in {mat[i] : i \in DOMAIN mat} \cup {sel.color} |-> h[r]]

\* the colour object itself is kept instead of a copy of it
CloneShared(h, r) == [heap |-> h, ref |-> r]

\* color.clone(): a new object holding the same value
Clone(h, r) ==
    LET n == Alloc(h) IN [heap |-> (n :> h[r]) @@ h, ref |-> n]

\* the paragraph without the name
NameLabelEmpty(name) == "<p class=\"name\"></p>"

\* `<p class="name">${name}</p>`
NameLabel(name) == "<p class=\"name\">" \o name \o "</p>"

Recolor(op, id) == [op |-> op, id |-> id]

(***************************************************************************)
(* Start-up.                                                               *)
(***************************************************************************)
AppInit ==
    /\ pc = "start"
    /\ fetchCount = 0
    /\ data = Null
    /\ failure = ""
    /\ nextId = 2            \* the scene took id 0, the camera id 1
    /\ scene = <<>>
    /\ material = <<>>
    /\ heap = (1 :> White)   \* selected.color = new THREE.Color()
    /\ selected = [id |-> NoId, color |-> 1, locked |-> FALSE]
    /\ mouseState = [down |-> FALSE]
    /\ output = ""          \* the output element starts empty
    /\ listeners = FALSE
    /\ rotation = 0
    /\ frameLog = <<>>
    /\ hits = <<>>
    /\ events = <<>>
    /\ assigned = <<>>

\* the page: no helper call is pending
Init ==
    /\ AppInit
    /\ call = Null
    /\ ret = Null

\* the listeners are registered before the dataset is awaited
SetupStartEager ==
    /\ pc = "start"
    /\ LET ref == Alloc(heap)
       IN  /\ scene' = Append(scene, Object3D(nextId, "globe", "Mesh", <<>>))
           /\ material' = (nextId :> ref) @@ material
           /\ heap' = (ref :> GlobeColor) @@ heap
           /\ assigned' = (nextId :> GlobeColor) @@ assigned
    /\ nextId' = nextId + 1
    /\ fetchCount' = fetchCount + 1
    /\ listeners' = TRUE
    /\ pc' = "fetch"
    /\ UNCHANGED <<data, failure, selected, mouseState, output,
                   rotation, frameLog, hits, events, call, ret>>

\* setup() up to its await: the globe is added and loadJSON() issues fetch()
SetupStart ==
    /\ pc = "start"
    /\ LET ref == Alloc(heap)
       IN  /\ scene' = Append(scene, Object3D(nextId, "globe", "Mesh", <<>>))
           /\ material' = (nextId :> ref) @@ material
           /\ heap' = (ref :> GlobeColor) @@ heap
           /\ assigned' = (nextId :> GlobeColor) @@ assigned
    /\ nextId' = nextId + 1
    /\ fetchCount' = fetchCount + 1
    /\ pc' = "fetch"
    /\ UNCHANGED <<data, failure, selected, mouseState, output, listeners,
                   rotation, frameLog, hits, events, call, ret>>

\* loadJSON(): `await fetch(filepath)` settles
FetchSettle ==
    /\ pc = "fetch"
    /\ \E outcome \in {"ok", "rejected", "notOk"} :
          IF outcome = "ok"
          THEN pc' = "json" /\ UNCHANGED failure
          ELSE pc' = "loaded" /\ failure' = outcome
    /\ UNCHANGED <<fetchCount, data, nextId, scene, material, heap, selected,
                   mouseState, output, listeners, rotation, frameLog, hits,
                   events, assigned, call, ret>>

\* loadJSON(): `await res.json()` settles
JsonSettle ==
    /\ pc = "json"
    /\ \/ data' = Null /\ failure' = "parse"
       \/ \E d \in Datasets : data' = d /\ UNCHANGED failure
    /\ pc' = "loaded"
    /\ UNCHANGED <<fetchCount, nextId, scene, material, heap, selected,
                   mouseState, output, listeners, rotation, frameLog, hits,
                   events, assigned, call, ret>>

\* setup(), lines 45-51: the meshes of one feature
FeatureMeshes(feature, shade) ==
    LET coordinates == feature.geometry.coordinates
    IN  [j \in 1..Length(coordinates) |->
            [name |-> feature.properties.admin,
             mesh |-> createShapeMesh(RingOf(Get(coordinates, j - 1)),
                                      MeshRadius, shade)]]

\* setup(), lines 39-52: the meshes of all features, in order
RECURSIVE AllMeshes(_, _, _)
AllMeshes(features, random, i) ==
    IF i > Len(features) THEN <<>>
    ELSE FeatureMeshes(features[i], Shade(random[i]))
            \o AllMeshes(features, random, i + 1)

\* setup() after its await
SetupResume ==
    /\ pc = "loaded"
    /\ IF data = Null
       THEN \* data.features of null: setup() rejects, the module stops
            /\ pc' = "threw"
            /\ UNCHANGED <<nextId, scene, material, heap, listeners, assigned>>
       ELSE \E random \in [1..Len(data.features) -> RandomBytes] :
            LET made == AllMeshes(data.features, random, 1)
                n == Len(made)
                ref(k) == Cardinality(DOMAIN heap) + k
            IN  /\ scene' = scene
                       \o [k \in 1..n |-> Object3D(nextId + k - 1, made[k].name,
                                                 "Mesh", made[k].mesh.position)]
                       \o <<Object3D(nextId + n, "", "AmbientLight", <<>>)>>
                /\ material' = [id \in DOMAIN material \cup (nextId..(nextId + n - 1)) |->
                                   IF id \in DOMAIN material THEN material[id]
                                   ELSE ref(id - nextId + 1)]
                /\ heap' = [r \in DOMAIN heap \cup {ref(k) : k \in 1..n} |->
                               IF r \in DOMAIN heap THEN heap[r]
                               ELSE made[r - Cardinality(DOMAIN heap)].mesh.color]
                /\ assigned' = [id \in DOMAIN assigned \cup (nextId..(nextId + n - 1)) |->
                                   IF id \in DOMAIN assigned THEN assigned[id]
                                   ELSE made[id - nextId + 1].mesh.color]
                /\ nextId' = nextId + n + 1
                /\ listeners' = TRUE
                /\ pc' = "ready"
    /\ UNCHANGED <<fetchCount, data, failure, selected, mouseState, output,
                   rotation, frameLog, hits, events, call, ret>>

(***************************************************************************)
(* The render loop and the event handlers.  They run only once setup() has *)
(* returned: the listeners are registered on its last lines, and the       *)
(* module's continuation calls run() before any event task is served.      *)
(* resize() only sizes the renderer and the camera and is left out.        *)
(***************************************************************************)
\* the frame rotates the scene whatever the button does
RotateAlways == TRUE

\* run(), line 71: the condition under which the frame rotates the scene
ShouldRotate == ~mouseState.down /\ ~pointerLocked

\* function run(), called at line 19 and then once per animation frame
Run ==
    /\ pc \in {"ready", "running"}
    /\ Len(hits) + Len(frameLog) < MaxEvents
    /\ rotation' = IF ShouldRotate THEN rotation + 1 ELSE rotation
    /\ frameLog' = Append(frameLog, ShouldRotate)
    /\ pc' = "running"
    /\ UNCHANGED <<fetchCount, data, failure, nextId, scene, material, heap,
                   selected, mouseState, output, listeners, hits, events,
                   assigned, call, ret>>

\* no early return
NeverSuppressed == FALSE

\* onPointerMove, line 88: the early return
Suppressed == mouseState.down

\* every hit counts as a new one
AlwaysNewHit(hit) == TRUE

\* onPointerMove, line 97: selected.id !== intersects[0].object.id
IsNewHit(hit) == selected.id # hit

\* function onPointerMove(event); `hit` is the id of intersects[0].object,
\* NoId when the ray meets nothing
onPointerMove(hit) ==
    /\ listeners /\ pc = "running"
    /\ Len(hits) + Len(frameLog) < MaxEvents
    /\ IF Suppressed
       THEN /\ hits' = Append(hits, [hit |-> NoId, handled |-> FALSE])
            /\ UNCHANGED <<material, heap, selected, output, events>>
       ELSE /\ hits' = Append(hits, [hit |-> hit, handled |-> TRUE])
            /\ IF hit # NoId /\ ObjectById(hit).name # "globe"
               THEN IF IsNewHit(hit)
                    THEN LET restored == IF Truthy(selected.id)
                                         THEN [material EXCEPT ![selected.id] = selected.color]
                                         ELSE material
                             cloned == Clone(heap, restored[hit])
                             sel == [selected EXCEPT !.id = hit, !.color = cloned.ref]
                             set == [cloned.heap EXCEPT ![restored[hit]] = HighlightColor]
                         IN  /\ material' = restored
                             /\ selected' = sel
                             /\ heap' = Collect(set, restored, sel)
                             /\ output' = NameLabel(ObjectById(hit).name)
                             /\ events' = events
                                   \o (IF Truthy(selected.id)
                                       THEN <<Recolor("restore", selected.id)>> ELSE <<>>)
                                   \o <<Recolor("highlight", hit)>>
                    ELSE UNCHANGED <<material, heap, selected, output, events>>
               ELSE IF Truthy(selected.id)
                    THEN LET restored == [material EXCEPT ![selected.id] = selected.color]
                             sel == [selected EXCEPT !.id = NoId]
                         IN  /\ material' = restored
                             /\ selected' = sel
                             /\ heap' = Collect(heap, restored, sel)
                             /\ output' = ""
                             /\ events' = Append(events, Recolor("restore", selected.id))
                    ELSE UNCHANGED <<material, heap, selected, output, events>>
    /\ UNCHANGED <<pc, fetchCount, data, failure, nextId, scene, mouseState,
                   listeners, rotation, frameLog, assigned, call, ret>>

PointerMove == \E hit \in {NoId} \cup MeshIds : onPointerMove(hit)

\* the press also drops the selection
onMouseDownClears ==
    /\ listeners /\ pc = "running"
    /\ mouseState' = [mouseState EXCEPT !.down = TRUE]
    /\ selected' = [selected EXCEPT !.locked = FALSE, !.id = NoId]
    /\ UNCHANGED <<pc, fetchCount, data, failure, nextId, scene, material,
                   heap, output, listeners, rotation, frameLog, hits, events,
                   assigned, call, ret>>

\* function onMouseDown(event)
onMouseDown ==
    /\ listeners /\ pc = "running"
    /\ mouseState' = [mouseState EXCEPT !.down = TRUE]
    /\ selected' = [selected EXCEPT !.locked = FALSE]
    /\ UNCHANGED <<pc, fetchCount, data, failure, nextId, scene, material,
                   heap, output, listeners, rotation, frameLog, hits, events,
                   assigned, call, ret>>

\* function onMouseUp(event)
onMouseUp ==
    /\ listeners /\ pc = "running"
    /\ mouseState' = [mouseState EXCEPT !.down = FALSE]
    /\ UNCHANGED <<pc, fetchCount, data, failure, nextId, scene, material,
                   heap, selected, output, listeners, rotation, frameLog,
                   hits, events, assigned, call, ret>>

Next ==
    \/ SetupStart
    \/ FetchSettle
    \/ JsonSettle
    \/ SetupResume
    \/ Run
    \/ PointerMove
    \/ onMouseDown
    \/ onMouseUp

Spec == Init /\ [][Next]_vars

(***************************************************************************)
(* The geometry helpers on their own: a call is drawn from bounded sets of *)
(* inputs and the helper is applied to it.                                 *)
(***************************************************************************)
\* whole degrees, in steps of ten
Latitudes == {10 * k : k \in (0 - 9)..9}
Longitudes == {10 * k : k \in (0 - 18)..18}

Radii == {Num(20 * Unit), MeshRadius}

RingPoints == {<<0, 0>>, <<10, 0>>, <<0, 10>>, <<0 - 30, 40>>}

RingsOfLength(n) == {Ring(ps) : ps \in [1..n -> RingPoints]}
Rings == UNION {RingsOfLength(n) : n \in 1..MaxRing}

Calls ==
    {[fn |-> "latLonToVec3", lat |-> Num(a), lon |-> Num(b), radius |-> r, deg |-> TRUE] :
        a \in Latitudes, b \in Longitudes, r \in Radii}
    \cup
    {[fn |-> "latLonToVec3", lat |-> ToRadians(Num(a)), lon |-> ToRadians(Num(b)),
      radius |-> r, deg |-> FALSE] :
        a \in Latitudes, b \in Longitudes, r \in Radii}
    \cup
    {[fn |-> "createShapeMesh", coordinatesArray |-> R, globeRadius |-> r,
      color |-> Shade(0)] : R \in Rings, r \in Radii}
    \cup
    {[fn |-> "FeatureMeshes", feature |-> Feature("Aland", <<R, Wrap(R)>>),
      shade |-> Shade(0)] : R \in Rings}

GeoInit ==
    /\ AppInit
    /\ call \in Calls
    /\ ret = Null

Pending(fn) == ret = Null /\ call.fn = fn

CallLatLonToVec3 ==
    /\ Pending("latLonToVec3")
    /\ ret' = latLonToVec3(call.lat, call.lon, call.radius, call.deg)
    /\ UNCHANGED <<appVars, call>>

CallCreateShapeMesh ==
    /\ Pending("createShapeMesh")
    /\ ret' = createShapeMesh(call.coordinatesArray, call.globeRadius, call.color)
    /\ UNCHANGED <<appVars, call>>

CallFeatureMeshes ==
    /\ Pending("FeatureMeshes")
    /\ ret' = FeatureMeshes(call.feature, call.shade)
    /\ UNCHANGED <<appVars, call>>

GeoNext ==
    \/ CallLatLonToVec3
    \/ CallCreateShapeMesh
    \/ CallFeatureMeshes

GeoSpec == GeoInit /\ [][GeoNext]_vars

(***************************************************************************)
(* Properties of the geometry helpers (checked under GeoSpec).             *)
(***************************************************************************)
Returned(fn) == call.fn = fn /\ ret # Null

\* the pairs (a, b), in degrees, of a ring
PairsOf(R) == {<<Get(Get(R, i - 1), 0), Get(Get(R, i - 1), 1)>> : i \in 1..Length(R)}

\* |v|^2 is r^2 to within one per cent
NormIs(v, r) ==
    LET n2 == v[1].v * v[1].v + v[2].v * v[2].v + v[3].v * v[3].v
        r2 == r.v * r.v
    IN  n2 - r2 <= r2 \div 100 /\ r2 - n2 <= r2 \div 100

CountY(position, y) == Cardinality({i \in 1..Len(position) : position[i][2] = y})

\* C7: a coordinates entry that wraps a ring R in one extra single-element
\* array yields the same mesh as the entry R itself, for every ring R of at
\* least one vertex.
C7_WrappedRingSameMesh ==
    Returned("FeatureMeshes") => ret[1].mesh = ret[2].mesh

\* C8: every vertex of the mesh made by createShapeMesh is
\* latLonToVec3(a, b, r, true) for a pair (a, b) of the ring, every pair of a
\* ring that draws at least one edge is mapped so, each vertex lies at
\* distance r from the origin, and the triangle [[0,0],[10,0],[0,10]] with
\* radius 20 has the y-values 0, 0 and 20*sin(10 degrees).
C8_ShapeMeshProjection ==
    Returned("createShapeMesh") =>
        LET R == call.coordinatesArray
            r == call.globeRadius
            projected == {latLonToVec3(p[1], p[2], r, TRUE) : p \in PairsOf(R)}
            vertices == {ret.position[i] : i \in 1..Len(ret.position)}
        IN  /\ vertices \subseteq projected
            /\ Length(R) >= 2 => vertices = projected
            /\ \A v \in vertices : NormIs(v, r)
            /\ (R = TriangleA /\ r = Num(20 * Unit)) =>
                  /\ Len(ret.position) = 3
                  /\ CountY(ret.position, Num(0)) = 2
                  /\ CountY(ret.position, Num(20 * SinDeg(10))) = 1

C8_Witness ==
    /\ Returned("createShapeMesh")
    /\ call.coordinatesArray = TriangleA
    /\ call.globeRadius = Num(20 * Unit)
    /\ Len(ret.position) = 3

(***************************************************************************)
(* Properties of the page (checked under Spec).                            *)
(***************************************************************************)
IsHandled(h) == h.handled
HandledHits ==
    LET handled == SelectSeq(hits, IsHandled)
    IN  [i \in 1..Len(handled) |-> handled[i].hit]

\* the nearest hit is an object other than the globe
IsCountry(hit) == hit # NoId /\ ObjectById(hit).name # "globe"
GlobeId == scene[CHOOSE i \in 1..Len(scene) : scene[i].name = "globe"].id
CountryIds == {id \in MeshIds : ObjectById(id).name # "globe"}
ColorOf(id) == heap[material[id]]

\* The recolouring writes the selection state machine of the specification
\* performs on the hits hs[i..], starting with `sel` selected.
RECURSIVE ExpectedRecolors(_, _, _)
ExpectedRecolors(hs, i, sel) ==
    IF i > Len(hs) THEN <<>>
    ELSE IF IsCountry(hs[i]) /\ hs[i] # sel
         THEN (IF sel # NoId THEN <<Recolor("restore", sel)>> ELSE <<>>)
                 \o <<Recolor("highlight", hs[i])>>
                 \o ExpectedRecolors(hs, i + 1, hs[i])
    ELSE IF ~IsCountry(hs[i]) /\ sel # NoId
         THEN <<Recolor("restore", sel)>> \o ExpectedRecolors(hs, i + 1, NoId)
    ELSE ExpectedRecolors(hs, i + 1, sel)

ScriptedHits(a, b) == <<GlobeId, a, a, b, NoId>>
ScriptedRecolors(a, b) ==
    <<Recolor("highlight", a), Recolor("restore", a),
      Recolor("highlight", b), Recolor("restore", b)>>

\* C1: the recolouring writes made for the pointer moves handled so far are
\* those of the selection state machine: a highlight only for a hit on an
\* object other than the globe and other than the selected one, preceded by
\* exactly one restore of the selected object if there was one, and a restore
\* when the pointer leaves a selected object; the hits
\* [globe, A, A, B, none] give highlight A, restore A, highlight B, restore B.
C1_RecolorEvents ==
    LET hs == HandledHits
    IN  /\ events = ExpectedRecolors(hs, 1, NoId)
        /\ Len(hs) = 5 =>
              \A a, b \in CountryIds :
                  (a # b /\ hs = ScriptedHits(a, b)) => events = ScriptedRecolors(a, b)

C1_Witness ==
    \E a, b \in CountryIds :
        /\ a # b
        /\ HandledHits = ScriptedHits(a, b)
        /\ events = ScriptedRecolors(a, b)

\* C2: when the load of the dataset fails, setup() still completes: it does
\* not throw, the scene holds the globe and no country mesh, the listeners
\* are registered and the render loop can start.
C2_LoadFailureDegrades ==
    (failure # "" /\ pc \notin {"fetch", "json", "loaded"}) =>
        /\ pc \in {"ready", "running"}
        /\ listeners
        /\ CountryIds = {}

\* C3: a step taken while mouseState.down is true changes neither
\* selected.id, selected.color, any material colour nor the label.
C3_NoSelectionChangeWhileDown ==
    [][mouseState.down =>
          UNCHANGED <<selected.id, selected.color, material, heap, output>>]_vars

\* a move was ignored during a press, and the next move, after the release,
\* selected another object
C3_Witness ==
    /\ Len(hits) = 3
    /\ hits[1].handled /\ IsCountry(hits[1].hit)
    /\ ~hits[2].handled
    /\ hits[3].handled /\ IsCountry(hits[3].hit) /\ hits[3].hit # hits[1].hit
    /\ selected.id = hits[3].hit

\* C4 as stated: once a drag has begun no object is selected.
C4_ClearedWhenDragBegins ==
    mouseState.down => selected.id = NoId

\* C4 as amended: onMouseDown leaves the selection as it is (selected.id,
\* the saved colour, the material colours and the label); selected.id goes
\* back to null only in a handled pointer move that hits nothing or the
\* globe.
C4_DragKeepsSelection ==
    [][/\ (~mouseState.down /\ mouseState'.down) =>
             UNCHANGED <<selected.id, selected.color, material, heap, output>>
       /\ (selected.id # NoId /\ selected'.id = NoId) =>
             /\ Len(hits') = Len(hits) + 1
             /\ hits'[Len(hits')].handled
             /\ ~IsCountry(hits'[Len(hits')].hit)]_vars

C4_Witness ==
    /\ mouseState.down
    /\ selected.id # NoId
    /\ ColorOf(selected.id) = HighlightColor

\* C5: at most one mesh shows the highlight colour; a selected mesh shows it
\* and selected.color holds the colour the mesh was created with; every other
\* mesh shows the colour it was created with.
C5_SingleHighlight ==
    /\ BitOr(HighlightColor, BaseTint) # HighlightColor
    /\ Cardinality({id \in MeshIds : ColorOf(id) = HighlightColor}) <= 1
    /\ selected.id # NoId =>
          /\ selected.id \in CountryIds
          /\ ColorOf(selected.id) = HighlightColor
          /\ heap[selected.color] = assigned[selected.id]
    /\ \A id \in MeshIds \ {selected.id} : ColorOf(id) = assigned[id]

C5_Witness ==
    /\ selected.id # NoId
    /\ Len(events) >= 3
    /\ events[Len(events) - 1].op = "restore"
    /\ frameLog # <<>>
    /\ mouseState.down

\* C6: a rendered frame rotates the scene by one increment exactly when no
\* button is down and no pointer lock is active; a frame rendered while the
\* button is down leaves the rotation as it is.
C6_RotationPerFrame ==
    [][frameLog' # frameLog =>
          /\ (rotation' = rotation + 1) <=> (~mouseState.down /\ ~pointerLocked)
          /\ mouseState.down => rotation' = rotation
          /\ rotation' \in {rotation, rotation + 1}]_vars

\* a frame rotated, a frame during a press did not, the frame after the
\* release rotated again
C6_Witness ==
    /\ frameLog = <<TRUE, FALSE, TRUE>>
    /\ rotation = 2
    /\ ~mouseState.down

\* C9: a handled pointer move that hits nothing or the globe while an object
\* is selected restores that object's colour, empties the label and sets
\* selected.id to null; one that hits another object than the globe and the
\* selected one shows that object's name; so whenever a move changes the
\* selection the label is empty exactly when nothing is selected and shows
\* the selected object's name otherwise.
C9_LabelFollowsSelection ==
    [][(Len(hits') = Len(hits) + 1 /\ hits'[Len(hits')].handled) =>
          LET hit == hits'[Len(hits')].hit
              Shown(id) == "<p class=\"name\">" \o ObjectById(id).name \o "</p>"
          IN  /\ (selected.id # NoId /\ ~IsCountry(hit)) =>
                    /\ selected'.id = NoId
                    /\ output' = ""
                    /\ heap'[material'[selected.id]] = heap[selected.color]
              /\ (IsCountry(hit) /\ hit # selected.id) =>
                    /\ selected'.id = hit
                    /\ output' = Shown(hit)
              /\ selected'.id # selected.id =>
                    /\ (output' = "") <=> (selected'.id = NoId)
                    /\ selected'.id # NoId => output' = Shown(selected'.id)]_vars

C9_Witness ==
    /\ Len(events) >= 3
    /\ events[Len(events)].op = "restore"
    /\ selected.id = NoId
    /\ output = ""

RECURSIVE RingCount(_, _)
RingCount(features, i) ==
    IF i > Len(features) THEN 0
    ELSE Length(features[i].geometry.coordinates) + RingCount(features, i + 1)

\* the scene holds the globe, one mesh per ring of the dataset, and the light
Populated ==
    /\ data # Null
    /\ Cardinality(CountryIds) = RingCount(data.features, 1)
    /\ Len(scene) = RingCount(data.features, 1) + 2
    /\ scene[Len(scene)].type = "AmbientLight"

\* C10: fetch() is called once and never again; the listeners are registered
\* and frames are rendered only after the fetch has settled and the scene is
\* fully populated.
C10_StartupOrder ==
    /\ fetchCount <= 1
    /\ pc # "start" => fetchCount = 1
    /\ (listeners \/ frameLog # <<>> \/ hits # <<>>) =>
          /\ pc \in {"ready", "running"}
          /\ Populated

C10_Witness ==
    /\ frameLog # <<>>
    /\ hits # <<>>
    /\ Populated
    /\ RingCount(data.features, 1) = 2

====
